---- MODULE Spec2Model ----
(***************************************************************************)
(* A model of aiofast's AioFastView (src/aiofast/handler.py): one request  *)
(* going through method resolution, annotation extraction, per-surface     *)
(* fetch and validation, the handler call and response normalisation      *)
(* (Spec, SpecFair); the form-encoded body parser _parse_qs as a pure      *)
(* function (SpecQS); and several requests, one view instance each,        *)
(* interleaved at the body read and the handler call (SpecConc).           *)
(*                                                                         *)
(* Python values are records [t |-> type name, v |-> repr]; an optional    *)
(* list of FieldErrors is a record [none |-> BOOLEAN, list |-> sequence].  *)
(***************************************************************************)
EXTENDS Integers, Sequences, FiniteSets, TLC

VARIABLES
    pc,                 \* position of _handle_incoming_request
    method,             \* request.method
    view,               \* the view's attributes named by lowercase method tokens
    signature,          \* inspect.signature(self._method).parameters
    annotations,        \* _ExtractedAnnotations
    raw,                \* the request's raw data, per surface, as it was fetched
    validated,          \* (result, errors) returned by each _validate_* call
    attempted,          \* the surfaces _extract_data has validated, in order
    method_params,      \* _ExtractedData.method_params
    validation_errors,  \* _ExtractedData.validation_errors
    envelope,           \* handler_response_schema (_ResponseSchema)
    heap,               \* the response objects constructed so far
    response,           \* index in heap of the annotated response, 0 for None
    handler_calls,      \* how many times self._method was awaited
    handler_args,       \* the keyword arguments of the call
    method_response,    \* what the handler returned
    status_at_return,   \* the annotated response's status when the handler returned
    outcome,            \* what the pipeline returned or raised
    stages,             \* the stages of the pipeline that have completed, in order
    qs_pairs,           \* parse_qsl(qs): the input of _parse_qs
    qs_result,          \* the mapping _parse_qs returned
    instances,          \* concurrent requests: the state of each view instance
    latest_method       \* the handler most recently resolved by any instance

vars == <<pc, method, view, signature, annotations, raw, validated, attempted,
          method_params, validation_errors, envelope, heap, response,
          handler_calls, handler_args, method_response, status_at_return,
          outcome, stages, qs_pairs, qs_result, instances, latest_method>>

pipeline_vars == <<pc, method, view, signature, annotations, raw, validated,
                   attempted, method_params, validation_errors, envelope, heap,
                   response, handler_calls, handler_args, method_response,
                   status_at_return, outcome, stages>>

qs_vars == <<qs_pairs, qs_result>>
conc_vars == <<instances, latest_method>>

-----------------------------------------------------------------------------
(* Python values *)

PyNone == [t |-> "NoneType", v |-> "None"]
PyInt(r) == [t |-> "int", v |-> r]
PyStr(r) == [t |-> "str", v |-> r]
PyBool(b) == [t |-> "bool", v |-> IF b THEN "True" ELSE "False"]
PyDict(r) == [t |-> "dict", v |-> r]
PyList(r) == [t |-> "list", v |-> r]
PyModel(r) == [t |-> "BaseModel", v |-> r]
PyRaised(e) == [t |-> "raised", v |-> e]

\* bool(x): what `if h_result:` and `if body_result:` test
Truthy(x) ==
    CASE x.t = "NoneType" -> FALSE
      [] x.t = "int" -> x.v # "0"
      [] x.t = "str" -> x.v # ""
      [] x.t = "bool" -> x.v = "True"
      [] x.t = "dict" -> x.v # "{}"
      [] x.t = "list" -> x.v # "[]"
      [] OTHER -> TRUE

ErrNone == [none |-> TRUE, list |-> <<>>]
ErrList(l) == [none |-> FALSE, list |-> l]
\* bool(errors): what `if errors:` tests
ErrTruthy(e) == ~e.none /\ e.list # <<>>

FieldError(loc, msg, type) == [loc |-> loc, msg |-> msg, type |-> type]

-----------------------------------------------------------------------------
(* MethodResolver *)

METH_ALL == {"CONNECT", "HEAD", "GET", "DELETE", "OPTIONS", "PATCH", "POST", "PUT", "TRACE"}

\* the request methods tried: standard tokens, a lowercase one, an unknown one
Methods == {"GET", "PUT", "DELETE", "get", "BREW"}

\* str.lower()
Lower(m) ==
    CASE m = "CONNECT" -> "connect"
      [] m = "HEAD" -> "head"
      [] m \in {"GET", "get"} -> "get"
      [] m = "DELETE" -> "delete"
      [] m = "OPTIONS" -> "options"
      [] m = "PATCH" -> "patch"
      [] m = "POST" -> "post"
      [] m = "PUT" -> "put"
      [] m = "TRACE" -> "trace"
      [] m = "BREW" -> "brew"

AttrNames == {Lower(m) : m \in METH_ALL} \cup {"brew"}

\* a view: each attribute is absent, set to None, or a handler coroutine
NoAttrs == [a \in AttrNames |-> "absent"]
Views == { [NoAttrs EXCEPT !["get"] = "callable"],
           [NoAttrs EXCEPT !["get"] = "None", !["post"] = "callable", !["put"] = "callable"],
           NoAttrs }

\* hasattr(self, name)
HasAttr(v, name) == v[name] # "absent"

\* a variant that probes with getattr(...) is not None instead of hasattr
AllowedMethods_Callable(v) == {m \in METH_ALL : v[Lower(m)] \notin {"absent", "None"}}

\* the successor _raise_allowed_methods leaves: HTTPMethodNotAllowed(method, allowed_methods)
AllowedMethods(v) == {m \in METH_ALL : HasAttr(v, Lower(m))}

NoOutcome == [kind |-> "none", id |-> 0, error |-> "", allowed |-> {}]
Returned(i) == [kind |-> "response", id |-> i, error |-> "", allowed |-> {}]
Raised(e) == [kind |-> "error", id |-> 0, error |-> e, allowed |-> {}]
MethodNotAllowed(v) ==
    [kind |-> "error", id |-> 0, error |-> "HTTPMethodNotAllowed", allowed |-> AllowedMethods(v)]

\* getattr(self, self.request.method.lower(), None) is None
HandlerMissing(v, m) == v[Lower(m)] \in {"absent", "None"}

\* lines 96-99: the method check and _get_handler_method
ResolveMethod ==
    /\ pc = "start"
    /\ IF method \notin METH_ALL \/ HandlerMissing(view, method)
       THEN /\ outcome' = MethodNotAllowed(view)
            /\ pc' = "done"
       ELSE /\ outcome' = outcome
            /\ pc' = "annotations"
    /\ stages' = Append(stages, "resolve_method")
    /\ UNCHANGED <<method, view, signature, annotations, raw, validated, attempted,
                   method_params, validation_errors, envelope, heap, response,
                   handler_calls, handler_args, method_response, status_at_return>>
    /\ UNCHANGED <<qs_vars, conc_vars>>

-----------------------------------------------------------------------------
(* AnnotationExtractor *)

Surfaces == <<"headers", "match_info", "query_params", "body">>
SurfaceNames == {"headers", "match_info", "query_params", "body"}

Param(n, a) == [name |-> n, ann |-> a]

BodyTypes == {"Schema", "int", "str", "bool", "dict"}

\* the handler signatures tried: every choice of declared surfaces, in the order
\* headers, match_info, query_params, body, response, and four misconfigured ones
Opt(n, anns) == {<<>>} \cup {<<Param(n, a)>> : a \in anns}
GoodSignatures ==
    { h \o m \o q \o b \o r :
        h \in Opt("headers", {"Schema"}), m \in Opt("match_info", {"Schema"}),
        q \in Opt("query_params", {"Schema"}), b \in Opt("body", BodyTypes),
        r \in Opt("response", {"Response"}) }
BadSignatures ==
    { <<Param("body", "Schema"), Param("response", "StreamResponse")>>,
      <<Param("response", "StreamResponse"), Param("user_id", "int")>>,
      <<Param("headers", "empty")>>,
      <<Param("headers", "Schema"), Param("cookies", "Schema")>> }
Signatures == GoodSignatures \cup BadSignatures

NoAnnotations ==
    [headers |-> "None", match_info |-> "None", query_params |-> "None",
     body |-> "None", response |-> "None", raised |-> ""]

\* lines 398-417: the loop over signature.parameters, from parameter i on
RECURSIVE ExtractFrom(_, _, _)
ExtractFrom(sig, i, ann) ==
    IF i > Len(sig) THEN ann
    ELSE LET p == sig[i] IN
         IF p.ann = "empty" THEN [ann EXCEPT !.raised = "ExtractionTypeError"]
         ELSE IF p.name = "headers" THEN ExtractFrom(sig, i + 1, [ann EXCEPT !.headers = p.ann])
         ELSE IF p.name = "match_info" THEN ExtractFrom(sig, i + 1, [ann EXCEPT !.match_info = p.ann])
         ELSE IF p.name = "query_params" THEN ExtractFrom(sig, i + 1, [ann EXCEPT !.query_params = p.ann])
         ELSE IF p.name = "body" THEN ExtractFrom(sig, i + 1, [ann EXCEPT !.body = p.ann])
         ELSE IF p.name = "response" THEN ExtractFrom(sig, i + 1, [ann EXCEPT !.response = p.ann])
         ELSE [ann EXCEPT !.raised = "ExtractionTypeError"]

\* _extract_annotations
ExtractedAnnotations(sig) == ExtractFrom(sig, 1, NoAnnotations)

_default_response_success_http_code == 200

\* aiohttp's Response()
NewResponse ==
    [status |-> _default_response_success_http_code,
     content_type |-> "application/octet-stream", text |-> <<>>, headers |-> {}]

\* _ResponseSchema()
NoErrors == [none |-> TRUE, map |-> <<>>]
NewEnvelope == [errors |-> NoErrors, result |-> PyNone]

\* a variant that accepts Response's base class as well
IsResponseType_Subclass(a) == a \in {"Response", "StreamResponse"}

\* line 107: extract_annotations.response is Response
IsResponseType(a) == a = "Response"

\* lines 101-113: the envelope, _extract_annotations and the annotated response
ExtractAnnotations ==
    /\ pc = "annotations"
    /\ LET ann == ExtractedAnnotations(signature) IN
       /\ envelope' = NewEnvelope
       /\ stages' = Append(stages, "extract_annotations")
       /\ IF ann.raised # ""
          THEN /\ outcome' = Raised(ann.raised)
               /\ pc' = "done"
               /\ UNCHANGED <<annotations, heap, response>>
          ELSE /\ annotations' = ann
               /\ IF ann.response # "None"
                  THEN IF IsResponseType(ann.response)
                       THEN /\ heap' = Append(heap, NewResponse)
                            /\ response' = Len(heap) + 1
                            /\ pc' = "headers"
                            /\ outcome' = outcome
                       ELSE /\ outcome' = Raised("WrongAnnotatedWebResponseError")
                            /\ pc' = "done"
                            /\ UNCHANGED <<heap, response>>
                  ELSE /\ pc' = "headers"
                       /\ UNCHANGED <<heap, response, outcome>>
    /\ UNCHANGED <<method, view, signature, raw, validated, attempted, method_params,
                   validation_errors, handler_calls, handler_args, method_response,
                   status_at_return>>
    /\ UNCHANGED <<qs_vars, conc_vars>>

-----------------------------------------------------------------------------
(* DataFetcher and Validator *)

\* the raw mappings tried for headers, match_info and the query string
RawMappings == {PyDict("{}"), PyDict("{'a': '1'}")}

\* the Content-Type headers tried ("None": the header is absent)
ContentTypes == {"None", "application/json", "text/plain",
                 "application/x-www-form-urlencoded", "image/png"}
\* the body texts tried
BodyTexts == {"", "0", "7", "a=1", "[]", "{}", "{\"a\": 1}"}
RawBodies == [ctype : ContentTypes, text : BodyTexts]

\* request.json(): json.loads of the body text
JsonLoads(text) ==
    CASE text \in {"0", "7"} -> PyInt(text)
      [] text = "[]" -> PyList("[]")
      [] text = "{}" -> PyDict("{}")
      [] text = "{\"a\": 1}" -> PyDict("{'a': 1}")
      [] OTHER -> PyRaised("JSONDecodeError")

\* lines 360-362: _parse_qs(unquote(text)) of the body text
FormData(text) == IF text = "a=1" THEN PyDict("{'a': '1'}") ELSE PyDict("{}")

\* _fetch_body_data
FetchBodyData(b) ==
    IF b.ctype = "None" THEN PyRaised("MissingContentTypeError")
    ELSE IF b.ctype = "application/json" THEN JsonLoads(b.text)
    ELSE IF b.ctype = "text/plain" THEN PyStr(b.text)
    ELSE IF b.ctype = "application/x-www-form-urlencoded" THEN FormData(b.text)
    ELSE PyRaised("UnexpectedContentTypeError")

\* the schema every surface declares: one required field, a
HasFieldA(d) == d.v \in {"{'a': '1'}", "{'a': 1}"}
SchemaErrors == <<FieldError(<<"a">>, "field required", "value_error.missing")>>

Result(r, e) == [result |-> r, errors |-> e, raised |-> ""]
Fatal(x) == [result |-> PyNone, errors |-> ErrNone, raised |-> x]

\* _validate_pydantic_schema: schema(**data), ValidationError caught
ValidatePydanticSchema(data) ==
    IF data.t # "dict" THEN Fatal("TypeError")
    ELSE IF HasFieldA(data) THEN Result(PyModel(data.v), ErrNone)
    ELSE Result(PyNone, ErrList(SchemaErrors))

\* _validate_headers, _validate_match_info, _validate_query_params
ValidateMapping(data) ==
    LET r == ValidatePydanticSchema(data) IN
    IF r.raised # "" THEN r
    ELSE IF ErrTruthy(r.errors) THEN Result(PyNone, r.errors)
    ELSE Result(r.result, ErrNone)

\* line 322: body_type(fetched_body_data) for a body type that is no schema
Construct(type, x) ==
    CASE type = "int" ->
            IF x.t = "int" THEN x
            ELSE IF x.t = "str" THEN (IF x.v \in {"0", "7"} THEN PyInt(x.v) ELSE PyRaised("ValueError"))
            ELSE PyRaised("TypeError")
      [] type = "str" -> PyStr(x.v)
      [] type = "bool" -> PyBool(Truthy(x))
      [] type = "dict" ->
            IF x.t = "dict" THEN x
            ELSE IF x.t = "str" THEN (IF x.v = "" THEN PyDict("{}") ELSE PyRaised("ValueError"))
            ELSE IF x.t = "list" THEN (IF x.v = "[]" THEN PyDict("{}") ELSE PyRaised("TypeError"))
            ELSE PyRaised("TypeError")

\* _get_pydantic_error_type, as (msg_template, get_exc_type)
PydanticErrorType(type) ==
    CASE type = "int" -> <<"value is not a valid integer", "type_error.integer">>
      [] type = "str" -> <<"str type expected", "type_error.str">>
      [] type = "float" -> <<"value is not a valid float", "type_error.float">>
      [] type = "dict" -> <<"value is not a valid dict", "type_error.dict">>
      [] type = "bytes" -> <<"byte type expected", "type_error.bytes">>
      [] type = "bool" -> <<"value could not be parsed to a boolean", "type_error.bool">>
      [] OTHER -> <<"value is not a <class>", "type_error.type">>

\* _gef_pydantic_like_answer_by_class_type_error
AnswerByClassTypeError(loc, type) ==
    <<FieldError(loc, PydanticErrorType(type)[1], PydanticErrorType(type)[2])>>

\* _gef_pydantic_like_answer_by_custom_message
AnswerByCustomMessage(loc, msg) == <<FieldError(loc, msg, "type_error.type")>>

\* str(exc) of what _fetch_body_data raised
FetchMessage(e) ==
    CASE e = "MissingContentTypeError" -> "missing Content-Type header"
      [] e = "UnexpectedContentTypeError" -> "cannot fetch body data. Content-Type not allowed here."
      [] e = "JSONDecodeError" -> "body is not a json"

\* a variant whose except clauses miss JSONDecodeError
ValidateBodyData_UncaughtJson(body_type, b) ==
    LET fetched == FetchBodyData(b) IN
    IF fetched.t = "raised"
    THEN IF fetched.v = "JSONDecodeError" THEN Fatal("JSONDecodeError")
         ELSE Result(PyNone, ErrList(AnswerByCustomMessage(<<"body">>, FetchMessage(fetched.v))))
    ELSE IF body_type = "Schema"
    THEN LET r == ValidatePydanticSchema(fetched) IN
         IF r.raised # "" THEN r
         ELSE IF ErrTruthy(r.errors) THEN Result(PyNone, r.errors)
         ELSE Result(r.result, ErrNone)
    ELSE LET c == Construct(body_type, fetched) IN
         IF c.t = "raised"
         THEN Result(PyNone, ErrList(AnswerByClassTypeError(<<"body">>, body_type)))
         ELSE Result(c, ErrNone)

\* _validate_body_data
ValidateBodyData(body_type, b) ==
    LET fetched == FetchBodyData(b) IN
    IF fetched.t = "raised"
    THEN Result(PyNone, ErrList(AnswerByCustomMessage(<<"body">>, FetchMessage(fetched.v))))
    ELSE IF body_type = "Schema"
    THEN LET r == ValidatePydanticSchema(fetched) IN
         IF r.raised # "" THEN r
         ELSE IF ErrTruthy(r.errors) THEN Result(PyNone, r.errors)
         ELSE Result(r.result, ErrNone)
    ELSE LET c == Construct(body_type, fetched) IN
         IF c.t = "raised"
         THEN Result(PyNone, ErrList(AnswerByClassTypeError(<<"body">>, body_type)))
         ELSE Result(c, ErrNone)

\* f with key k set to x
Put(f, k, x) == [n \in DOMAIN f \cup {k} |-> IF n = k THEN x ELSE f[n]]

\* one `if extract_annotations.<surface>:` block of _extract_data, given what
\* the surface's _validate_* call returned
ExtractSurface(s, declared, data, r, next) ==
    /\ stages' = IF next = "check" /\ (declared => r.raised = "")
                 THEN Append(stages, "extract_data") ELSE stages
    /\ IF ~declared
       THEN /\ pc' = next
            /\ UNCHANGED <<raw, validated, attempted, method_params, validation_errors, outcome>>
       ELSE /\ raw' = Put(raw, s, data)
            /\ attempted' = Append(attempted, s)
            /\ IF r.raised # ""
               THEN /\ outcome' = Raised(r.raised)
                    /\ pc' = "done"
                    /\ UNCHANGED <<validated, method_params, validation_errors>>
               ELSE /\ validated' = Put(validated, s, r)
                    /\ outcome' = outcome
                    /\ pc' = next
                    /\ IF Truthy(r.result)
                       THEN /\ method_params' = Put(method_params, s, r.result)
                            /\ UNCHANGED validation_errors
                       ELSE /\ validation_errors' = Put(validation_errors, s, r.errors)
                            /\ UNCHANGED method_params
    /\ UNCHANGED <<method, view, signature, annotations, envelope, heap, response,
                   handler_calls, handler_args, method_response, status_at_return>>
    /\ UNCHANGED <<qs_vars, conc_vars>>

\* lines 206-212
ValidateHeaders ==
    /\ pc = "headers"
    /\ \E data \in RawMappings :
          ExtractSurface("headers", annotations.headers # "None", data,
                         ValidateMapping(data), "match_info")

\* lines 214-220
ValidateMatchInfo ==
    /\ pc = "match_info"
    /\ \E data \in RawMappings :
          ExtractSurface("match_info", annotations.match_info # "None", data,
                         ValidateMapping(data), "query_params")

\* lines 222-228
ValidateQueryParams ==
    /\ pc = "query_params"
    /\ \E data \in RawMappings :
          ExtractSurface("query_params", annotations.query_params # "None", data,
                         ValidateMapping(data), "body")

\* lines 230-235
ValidateBody ==
    /\ pc = "body"
    /\ \E b \in RawBodies :
          ExtractSurface("body", annotations.body # "None", b,
                         ValidateBodyData(annotations.body, b), "check")

-----------------------------------------------------------------------------
(* Dispatcher *)

\* a reference to the response object heap[i]
RefNames == <<"#1", "#2", "#3">>
Ref(i) == [t |-> "Response", v |-> RefNames[i]]
RefId(x) == CHOOSE i \in 1..Len(RefNames) : RefNames[i] = x.v

\* _ResponseSchema.set_client_error
SetClientError(env, error) ==
    LET old == IF env.errors.none THEN <<>> ELSE env.errors.map IN
    [env EXCEPT !.errors =
        [none |-> FALSE,
         map |-> [n \in DOMAIN old \cup DOMAIN error |->
                    IF n \in DOMAIN error THEN error[n] ELSE old[n]]]]

\* _ResponseSchema.set_result
SetResult(env, result) == [env EXCEPT !.result = result]

\* schema.json(by_alias=True) raises for a result that has no JSON form
Serializable(env) == env.result # PyModel("unserializable")
SchemaJson(env) ==
    <<[errors |-> env.errors,
       result |-> IF env.result.t = "NoneType" THEN "null" ELSE env.result.v]>>

\* a variant that never calls set_status
JsonResponse_KeepStatus(r, env, status) ==
    [r EXCEPT !.content_type = "application/json", !.text = SchemaJson(env)]

\* lines 195-198 of _return_json_response: what it writes into the response
JsonResponse(r, env, status) ==
    [r EXCEPT !.content_type = "application/json",
              !.text = SchemaJson(env),
              !.status = IF status # 0 THEN status ELSE @]

HTTP_400 == 400

\* a variant whose test never sees an error
HasValidationErrors_Never(errors) == FALSE

\* line 119: if extracted_data.validation_errors
HasValidationErrors(errors) == DOMAIN errors # {}

\* a variant that records the errors in the envelope and calls the handler anyway
Dispatch_NoShortCircuit ==
    /\ pc = "check"
    /\ LET params == IF response # 0 THEN Put(method_params, "response", Ref(response))
                     ELSE method_params IN
       /\ method_params' = params
       /\ stages' = Append(stages, "dispatch")
       /\ envelope' = IF HasValidationErrors(validation_errors)
                      THEN SetClientError(envelope, validation_errors) ELSE envelope
       /\ handler_calls' = handler_calls + 1
       /\ handler_args' = params
       /\ pc' = "handler"
       /\ UNCHANGED <<heap, outcome>>
    /\ UNCHANGED <<method, view, signature, annotations, raw, validated, attempted,
                   validation_errors, response, method_response, status_at_return>>
    /\ UNCHANGED <<qs_vars, conc_vars>>

\* lines 116-123: the response argument, the 400 short-circuit, the handler call
Dispatch ==
    /\ pc = "check"
    /\ LET params == IF response # 0 THEN Put(method_params, "response", Ref(response))
                     ELSE method_params IN
       /\ method_params' = params
       /\ stages' = Append(stages, "dispatch")
       /\ IF HasValidationErrors(validation_errors)
          THEN LET env == SetClientError(envelope, validation_errors) IN
               /\ envelope' = env
               /\ heap' = Append(heap, JsonResponse(NewResponse, env, HTTP_400))
               /\ outcome' = Returned(Len(heap) + 1)
               /\ pc' = "done"
               /\ UNCHANGED <<handler_calls, handler_args>>
          ELSE /\ handler_calls' = handler_calls + 1
               /\ handler_args' = params
               /\ pc' = "handler"
               /\ UNCHANGED <<envelope, heap, outcome>>
    /\ UNCHANGED <<method, view, signature, annotations, raw, validated, attempted,
                   validation_errors, response, method_response, status_at_return>>
    /\ UNCHANGED <<qs_vars, conc_vars>>

-----------------------------------------------------------------------------
(* the handler *)

PyType(n) == [t |-> "type", v |-> n]

\* the status indicators a handler puts in its tuple: integers, an HTTPException
\* class, and three values that are neither: another class, a string and an
\* HTTPException instance
Indicators ==
    {PyInt("0"), PyInt("201"), PyType("HTTPNotFound"), PyType("int"), PyStr("201"),
     [t |-> "HTTPNotFound", v |-> "HTTPNotFound()"]}

IntOf(r) == CASE r = "0" -> 0 [] r = "7" -> 7 [] r = "201" -> 201

\* issubclass(x, HTTPException): "TypeError" when x is no class
IsHttpException(x) ==
    IF x.t # "type" THEN "TypeError" ELSE IF x.v = "HTTPNotFound" THEN "True" ELSE "False"

\* HTTPNotFound.status_code
StatusCodeOf(x) == 404

\* what a handler does to the response it was given
Mutations == { [status |-> 200, headers |-> {}],
               [status |-> 403, headers |-> {}],
               [status |-> 0, headers |-> {}],
               [status |-> 200, headers |-> {"X-Handler"}] }

\* the response a handler builds itself
HandlerResponse ==
    [status |-> 202, content_type |-> "text/plain", text |-> <<>>, headers |-> {}]

Bare(x) == [tuple |-> FALSE, items |-> <<x>>]
Tuple(xs) == [tuple |-> TRUE, items |-> xs]
NoReturn == Bare(PyNone)

\* the values a handler returns for one payload
Wrapped(x) == {Bare(x), Tuple(<<>>), Tuple(<<x>>), Tuple(<<x, PyInt("201"), PyNone>>)}
                 \cup {Tuple(<<x, i>>) : i \in Indicators}

\* the payloads a handler returns: models, None, a dict, the response it was
\* given (when it declared one) and a response it built itself
Payloads(given, built) ==
    {PyModel("{'id': 1}"), PyModel("unserializable"), PyNone, PyDict("{'id': 1}"), Ref(built)}
        \cup (IF given # 0 THEN {Ref(given)} ELSE {})

\* line 123: the awaited handler runs and returns
HandlerRuns ==
    /\ pc = "handler"
    /\ \E mut \in Mutations, x \in Payloads(response, Len(heap) + 1) :
       LET mutated == IF response = 0 THEN heap
                      ELSE [heap EXCEPT ![response].status = mut.status,
                                        ![response].headers = mut.headers]
       IN /\ response = 0 => mut = [status |-> 200, headers |-> {}]
          /\ heap' = IF x = Ref(Len(heap) + 1) THEN Append(mutated, HandlerResponse)
                     ELSE mutated
          /\ \E ret \in Wrapped(x) : method_response' = ret
          /\ status_at_return' = IF response = 0 THEN 0 ELSE mut.status
    /\ pc' = "normalize"
    /\ stages' = Append(stages, "handler")
    /\ UNCHANGED <<method, view, signature, annotations, raw, validated, attempted,
                   method_params, validation_errors, envelope, response,
                   handler_calls, handler_args, outcome>>
    /\ UNCHANGED <<qs_vars, conc_vars>>

-----------------------------------------------------------------------------
(* ResponseNormalizer *)

Code(c) == [code |-> c, raised |-> ""]
CodeRaised(e) == [code |-> 0, raised |-> e]

\* a variant that falls back to the default status for an indicator it does not know
GetHandlerResponseHttpCode_DefaultOnUnknown(existing, unchecked) ==
    IF existing # <<>> /\ existing[1].status # _default_response_success_http_code
    THEN Code(existing[1].status)
    ELSE IF unchecked.t = "int" THEN Code(IntOf(unchecked.v))
    ELSE IF IsHttpException(unchecked) = "True" THEN Code(StatusCodeOf(unchecked))
    ELSE Code(_default_response_success_http_code)

\* a variant that looks at the tuple's integer before the annotated response
GetHandlerResponseHttpCode_IndicatorFirst(existing, unchecked) ==
    IF unchecked.t = "int" THEN Code(IntOf(unchecked.v))
    ELSE IF existing # <<>> /\ existing[1].status # _default_response_success_http_code
    THEN Code(existing[1].status)
    ELSE IF IsHttpException(unchecked) = "True" THEN Code(StatusCodeOf(unchecked))
    ELSE CodeRaised("UnexpectedHttpCodeError")

\* _get_handler_response_http_code; existing is the annotated response or <<>>
GetHandlerResponseHttpCode(existing, unchecked) ==
    IF existing # <<>> /\ existing[1].status # _default_response_success_http_code
    THEN Code(existing[1].status)
    ELSE IF unchecked.t = "int" THEN Code(IntOf(unchecked.v))
    ELSE IF IsHttpException(unchecked) = "TypeError" THEN CodeRaised("UnexpectedHttpCodeError")
    ELSE IF IsHttpException(unchecked) = "True" THEN Code(StatusCodeOf(unchecked))
    ELSE CodeRaised("UnexpectedHttpCodeError")

\* a variant that takes everything that is no response for a model
HandlerResponseType_ModelByDefault(x) ==
    IF x.t = "Response" THEN "web_response" ELSE "pydantic_model"

\* _get_handler_response_type
HandlerResponseType(x) ==
    IF x.t = "BaseModel" THEN "pydantic_model"
    ELSE IF x.t = "Response" THEN "web_response"
    ELSE "another"

\* lines 155-165: a model result, written with status code into the annotated
\* response or into a new one
ModelResult(x, code) ==
    LET env == SetResult(envelope, x)
        target == IF response = 0 THEN Len(heap) + 1 ELSE response
        objects == IF response = 0 THEN Append(heap, NewResponse) ELSE heap
    IN /\ envelope' = env
       /\ IF Serializable(env)
          THEN /\ heap' = [objects EXCEPT ![target] = JsonResponse(@, env, code)]
               /\ outcome' = Returned(target)
          ELSE /\ heap' = objects
               /\ outcome' = Raised("CannotSerializeResponseError")

\* a variant without the identity check
TransportResponse_AnyInstance(x) ==
    /\ outcome' = Returned(RefId(x))
    /\ UNCHANGED <<envelope, heap>>

\* lines 167-173: a transport response
TransportResponse(x) ==
    /\ IF response # 0 /\ response # RefId(x)
       THEN outcome' = Raised("NotOriginalResponseError")
       ELSE outcome' = Returned(RefId(x))
    /\ UNCHANGED <<envelope, heap>>

\* a variant that sets the status code on a transport response as well
Normalize_StatusOnResponse(x, code) ==
    LET type == HandlerResponseType(x) IN
    IF type = "pydantic_model" THEN ModelResult(x, code)
    ELSE IF type = "web_response"
    THEN /\ outcome' = IF response # 0 /\ response # RefId(x)
                       THEN Raised("NotOriginalResponseError") ELSE Returned(RefId(x))
         /\ heap' = [heap EXCEPT ![RefId(x)].status = IF code # 0 THEN code ELSE @]
         /\ UNCHANGED envelope
    ELSE /\ outcome' = Raised("UnhandledResponseTypeError")
         /\ UNCHANGED <<envelope, heap>>

\* a variant that falls off the end for an unrecognised payload
Normalize_SilentUnhandled(x, code) ==
    LET type == HandlerResponseType(x) IN
    IF type = "pydantic_model" THEN ModelResult(x, code)
    ELSE IF type = "web_response" THEN TransportResponse(x)
    ELSE UNCHANGED <<outcome, envelope, heap>>

\* lines 153-175: classification of the payload and the three ways out
Normalize(x, code) ==
    LET type == HandlerResponseType(x) IN
    IF type = "pydantic_model" THEN ModelResult(x, code)
    ELSE IF type = "web_response" THEN TransportResponse(x)
    ELSE /\ outcome' = Raised("UnhandledResponseTypeError")
         /\ UNCHANGED <<envelope, heap>>

\* lines 125-175: _handle_response
HandleResponse ==
    /\ pc = "normalize"
    /\ pc' = "done"
    /\ stages' = Append(stages, "handle_response")
    /\ IF method_response.tuple
       THEN IF Len(method_response.items) # 2
            THEN /\ outcome' = Raised("HandlerResultTypeError")
                 /\ UNCHANGED <<envelope, heap>>
            ELSE LET c == GetHandlerResponseHttpCode(
                              IF response = 0 THEN <<>> ELSE <<heap[response]>>,
                              method_response.items[2])
                 IN IF c.raised # ""
                    THEN /\ outcome' = Raised(c.raised)
                         /\ UNCHANGED <<envelope, heap>>
                    ELSE Normalize(method_response.items[1], c.code)
       ELSE Normalize(method_response.items[1], _default_response_success_http_code)
    /\ UNCHANGED <<method, view, signature, annotations, raw, validated, attempted,
                   method_params, validation_errors, response, handler_calls,
                   handler_args, method_response, status_at_return>>
    /\ UNCHANGED <<qs_vars, conc_vars>>

-----------------------------------------------------------------------------
(* one request *)

EmptyMap == [n \in {} |-> PyNone]

PipelineInit ==
    /\ pc = "start"
    /\ annotations = NoAnnotations
    /\ raw = EmptyMap
    /\ validated = EmptyMap
    /\ attempted = <<>>
    /\ method_params = EmptyMap
    /\ validation_errors = EmptyMap
    /\ envelope = NewEnvelope
    /\ heap = <<>>
    /\ response = 0
    /\ handler_calls = 0
    /\ handler_args = EmptyMap
    /\ method_response = NoReturn
    /\ status_at_return = 0
    /\ outcome = NoOutcome
    /\ stages = <<>>

\* no concurrent requests
NoInstances == instances = <<>> /\ latest_method = "None"

Init ==
    /\ method \in Methods
    /\ view \in Views
    /\ signature \in Signatures
    /\ PipelineInit
    /\ qs_pairs = <<>>
    /\ qs_result = [n \in {} |-> PyNone]
    /\ NoInstances

Next ==
    \/ ResolveMethod
    \/ ExtractAnnotations
    \/ ValidateHeaders
    \/ ValidateMatchInfo
    \/ ValidateQueryParams
    \/ ValidateBody
    \/ Dispatch
    \/ HandlerRuns
    \/ HandleResponse

Spec == Init /\ [][Next]_vars

\* the awaited body read and the awaited handler return, and the event loop
\* runs the coroutine whenever it can continue
SpecFair == Spec /\ WF_vars(Next)

-----------------------------------------------------------------------------
(* the form-encoded body parser *)

\* a str is the sequence of its characters; a value stored in parsed_result is
\* a str, [kind |-> "str", items |-> <<s>>], or a list of str
Scalar(s) == [kind |-> "str", items |-> <<s>>]
List(xs) == [kind |-> "list", items |-> xs]

\* parsed_result[name][0]: the first character of a str, the first item of a list
Index0(x) == IF x.kind = "str" THEN <<x.items[1][1]>> ELSE x.items[1]

\* lines 372-377: the loop of _parse_qs over pairs, from pair i on
RECURSIVE ParseFrom(_, _, _)
ParseFrom(pairs, i, parsed_result) ==
    IF i > Len(pairs) THEN parsed_result
    ELSE LET name == pairs[i][1]
             value == pairs[i][2]
         IN IF name \in DOMAIN parsed_result
            THEN LET fst_arg == Index0(parsed_result[name]) IN
                 ParseFrom(pairs, i + 1, Put(parsed_result, name, List(<<fst_arg, value>>)))
            ELSE ParseFrom(pairs, i + 1, Put(parsed_result, name, Scalar(value)))

NoPairs == [n \in {} |-> Scalar(<<>>)]

\* _parse_qs, given parse_qsl(qs)
_parse_qs(pairs) == ParseFrom(pairs, 1, NoPairs)

MaxPairs == 3

\* the names and the (non-blank) values parse_qsl yields
QsNames == {"a", "b"}
QsValues == {<<"1">>, <<"2">>, <<"3">>, <<"1", "2">>, <<"3", "4">>}
QsPairs == UNION {[1..n -> QsNames \X QsValues] : n \in 0..MaxPairs}

InitQS ==
    /\ PipelineInit
    /\ method = "POST"
    /\ view = NoAttrs
    /\ signature = <<>>
    /\ qs_pairs \in QsPairs
    /\ qs_result = NoPairs
    /\ NoInstances

\* line 362: self._parse_qs(unquotes_text)
ParseQs ==
    /\ pc = "start"
    /\ pc' = "parsed"
    /\ qs_result' = _parse_qs(qs_pairs)
    /\ UNCHANGED <<method, view, signature, annotations, raw, validated, attempted,
                   method_params, validation_errors, envelope, heap, response,
                   handler_calls, handler_args, method_response, status_at_return,
                   outcome, stages, qs_pairs>>
    /\ UNCHANGED conc_vars

NextQS == ParseQs

SpecQS == InitQS /\ [][NextQS]_vars

-----------------------------------------------------------------------------
(* the properties *)

InStages(x) == \E i \in 1..Len(stages) : stages[i] = x

\* the surfaces the handler declares
DeclaredSurfaces == {s \in SurfaceNames : annotations[s] # "None"}
\* the surface's _validate_* call returned (value, None)
ValidatedOk(s) == s \in DOMAIN validated /\ validated[s].errors.none
\* the surface's _validate_* call returned (None, errors)
FailedValidation(s) == s \in DOMAIN validated /\ ~validated[s].errors.none

ReturnedResponse == outcome.kind = "response"
Returned400 == ReturnedResponse /\ heap[outcome.id].status = 400

TupleOfTwo == method_response.tuple /\ Len(method_response.items) = 2
Payload == method_response.items[1]
Indicator == method_response.items[2]
AnnotatedStatusChanged == response # 0 /\ status_at_return # 200

\* C1: when every declared surface validated successfully, whatever the bound
\* value is, the handler is invoked exactly once with exactly the bound values
\* keyed by surface name (plus the injected response when declared), and no
\* error envelope or 400 response is produced.
C1_ValidRequestInvokesHandler ==
    (InStages("dispatch") /\ \A s \in DeclaredSurfaces : ValidatedOk(s))
    => /\ handler_calls = 1
       /\ DOMAIN handler_args =
             DeclaredSurfaces \cup (IF response # 0 THEN {"response"} ELSE {})
       /\ \A s \in DeclaredSurfaces : handler_args[s] = validated[s].result
       /\ response # 0 => handler_args["response"] = Ref(response)
       /\ envelope.errors.none
       /\ ~Returned400

\* C2: when at least one declared surface fails validation, the handler is
\* never invoked and the pipeline returns a response with status 400 whose
\* envelope carries the errors and leaves result unset.
C2_FailedValidationReturns400 ==
    (pc = "done" /\ \E s \in DeclaredSurfaces : FailedValidation(s))
    => /\ handler_calls = 0
       /\ Returned400
       /\ ~envelope.errors.none
       /\ envelope.result = PyNone
       /\ heap[outcome.id].text = SchemaJson(envelope)

\* C3: every declared surface is fetched and validated even when an earlier
\* one failed, and the errors map of the 400 envelope has exactly one key per
\* declared surface that failed validation, each mapped to its non-empty list
\* of FieldErrors, and no key for a surface that validated or was not declared.
C3_ErrorsMapIsTheFailedSurfaces ==
    /\ InStages("extract_data")
       => attempted = SelectSeq(Surfaces, LAMBDA s : s \in DeclaredSurfaces)
    /\ (pc = "done" /\ handler_calls = 0 /\ Returned400)
       => /\ ~envelope.errors.none
          /\ DOMAIN envelope.errors.map = {s \in DeclaredSurfaces : FailedValidation(s)}
          /\ \A s \in DOMAIN envelope.errors.map :
                /\ ~envelope.errors.map[s].none
                /\ envelope.errors.map[s].list # <<>>
                /\ envelope.errors.map[s] = validated[s].errors

\* C4: for a correctly configured handler and any raw request data, the
\* fetch-and-validate stage never propagates a fatal error: the pipeline
\* either invokes the handler or returns a 400 response with the error envelope.
C4_FetchAndValidateNeverFatal ==
    (pc = "done" /\ signature \in GoodSignatures /\ InStages("extract_annotations"))
    => \/ handler_calls = 1
       \/ Returned400 /\ ~envelope.errors.none

\* C5: when the handler returns (model, statusIndicator) and the annotated
\* response's status is not 200 when the handler returns, the final response's
\* status is the annotated response's status, for every statusIndicator.
C5_AnnotatedStatusWins ==
    (pc = "done" /\ TupleOfTwo /\ Payload.t = "BaseModel" /\ AnnotatedStatusChanged)
    => IF Payload # PyModel("unserializable")
       THEN /\ outcome = Returned(response)
            /\ heap[outcome.id].status = status_at_return
       ELSE outcome = Raised("CannotSerializeResponseError")

C5_Witness ==
    /\ pc = "done"
    /\ method_response = Tuple(<<PyModel("{'id': 1}"), PyInt("201")>>)
    /\ response # 0 /\ status_at_return = 403
    /\ ReturnedResponse /\ heap[outcome.id].status = 403

\* C6 as stated: when the handler returns (model, n) with n an integer and
\* there is no annotated response (or its status is still 200), the final
\* response has status n, content type application/json and an envelope whose
\* result is the model, for every integer n.
C6_IntegerStatusUsed ==
    (pc = "done" /\ TupleOfTwo /\ Payload.t = "BaseModel" /\ Indicator.t = "int"
       /\ ~AnnotatedStatusChanged /\ ReturnedResponse)
    => /\ heap[outcome.id].status = IntOf(Indicator.v)
       /\ heap[outcome.id].content_type = "application/json"
       /\ heap[outcome.id].text = <<[errors |-> NoErrors, result |-> Payload.v]>>

\* C6 as amended: under the same conditions the final response has content
\* type application/json, an envelope whose result is the model, and status n
\* for every integer n other than 0; for n = 0 the status stays 200.
C6_NonZeroIntegerStatusUsed ==
    (pc = "done" /\ TupleOfTwo /\ Payload.t = "BaseModel" /\ Indicator.t = "int"
       /\ ~AnnotatedStatusChanged)
    => IF Payload # PyModel("unserializable")
       THEN /\ ReturnedResponse
            /\ heap[outcome.id].status =
                  IF IntOf(Indicator.v) # 0 THEN IntOf(Indicator.v) ELSE 200
            /\ heap[outcome.id].content_type = "application/json"
            /\ heap[outcome.id].text = <<[errors |-> NoErrors, result |-> Payload.v]>>
       ELSE outcome = Raised("CannotSerializeResponseError")

C6_Witness ==
    /\ pc = "done"
    /\ method_response = Tuple(<<PyModel("{'id': 1}"), PyInt("201")>>)
    /\ response = 0
    /\ ReturnedResponse /\ heap[outcome.id].status = 201
    /\ heap[outcome.id].content_type = "application/json"

\* C7: when the handler returns a model that is not wrapped in a tuple, the
\* final response status is 200 unless the handler mutated the status of the
\* annotated response, in which case the final response carries that status.
C7_BareModelKeepsMutatedStatus ==
    (pc = "done" /\ ~method_response.tuple /\ Payload.t = "BaseModel" /\ ReturnedResponse)
    => heap[outcome.id].status =
          IF AnnotatedStatusChanged THEN status_at_return ELSE 200

\* C8 as stated: when the handler declared a response parameter and returns,
\* alone or as the payload of a 2-tuple, a transport response that is not the
\* injected instance, the pipeline fails with the not-original-response error
\* and returns no response.
C8_OtherInstanceIsNotOriginal ==
    (pc = "done" /\ response # 0 /\ (~method_response.tuple \/ TupleOfTwo)
       /\ Payload.t = "Response" /\ Payload # Ref(response))
    => outcome = Raised("NotOriginalResponseError")

\* C8 as amended: in that case the pipeline returns no response; it fails with
\* the not-original-response error when the response came alone or in a 2-tuple
\* whose status resolves (the annotated status is not 200, or the indicator is
\* an integer or an HTTP-exception type), and with the unexpected-http-code
\* error when the 2-tuple's status does not resolve.
C8_OtherInstanceFails ==
    (pc = "done" /\ response # 0 /\ (~method_response.tuple \/ TupleOfTwo)
       /\ Payload.t = "Response" /\ Payload # Ref(response))
    => IF method_response.tuple /\ status_at_return = 200 /\ Indicator.t # "int"
          /\ Indicator # PyType("HTTPNotFound")
       THEN outcome = Raised("UnexpectedHttpCodeError")
       ELSE outcome = Raised("NotOriginalResponseError")

C8_Witness ==
    /\ pc = "done" /\ response # 0
    /\ method_response = Tuple(<<Ref(2), PyInt("201")>>)
    /\ response = 1
    /\ outcome = Raised("NotOriginalResponseError")

\* C9: a request whose method is no standard HTTP method token, or has no
\* matching lowercase-named attribute on the view, fails with method-not-allowed
\* whose allowed set is exactly the standard tokens for which the view has a
\* matching attribute, and nothing else of the pipeline runs.
C9_MethodNotAllowed ==
    (pc # "start" /\ (method \notin METH_ALL \/ view[Lower(method)] = "absent"))
    => /\ pc = "done"
       /\ outcome.kind = "error" /\ outcome.error = "HTTPMethodNotAllowed"
       /\ outcome.allowed = {m \in METH_ALL : view[Lower(m)] # "absent"}
       /\ stages = <<"resolve_method">>
       /\ attempted = <<>> /\ heap = <<>> /\ handler_calls = 0
       /\ annotations = NoAnnotations /\ envelope = NewEnvelope

C9_Witness ==
    /\ pc = "done" /\ method = "DELETE"
    /\ view["get"] = "None" /\ view["put"] = "callable"
    /\ outcome.error = "HTTPMethodNotAllowed"
    /\ outcome.allowed = {"GET", "POST", "PUT"}

\* the pairs of qs_pairs named k, in order
Occurrences(k) == SelectSeq(qs_pairs, LAMBDA p : p[1] = k)

\* C10: the form parser maps a key occurring once to its value as a scalar, a
\* key occurring twice to the list [first value, second value], and drops the
\* third and later occurrences, so a=1&a=2&a=3 parses to {a: ["1","2"]}.
C10_FirstTwoValuesKept ==
    pc = "parsed"
    => \A k \in QsNames :
          LET occ == Occurrences(k) IN
          /\ Len(occ) = 0 => k \notin DOMAIN qs_result
          /\ Len(occ) = 1 => k \in DOMAIN qs_result /\ qs_result[k] = Scalar(occ[1][2])
          /\ Len(occ) >= 2 => k \in DOMAIN qs_result
                              /\ qs_result[k] = List(<<occ[1][2], occ[2][2]>>)

\* the body texts that json.loads accepts
JsonTexts == {"0", "7", "[]", "{}", "{\"a\": 1}"}
SupportedContentTypes ==
    {"application/json", "text/plain", "application/x-www-form-urlencoded"}

\* the body was fetched and the fetch failed: no Content-Type, a Content-Type
\* that is not supported, or an application/json body that is no JSON
BodyFetchFailed ==
    /\ "body" \in DOMAIN raw
    /\ \/ raw["body"].ctype \notin SupportedContentTypes
       \/ raw["body"].ctype = "application/json" /\ raw["body"].text \notin JsonTexts

\* C11: when the handler declares a body and fetching it fails (Content-Type
\* absent or unsupported, or an application/json body that is no JSON), the
\* body surface gets exactly one FieldError located at ("body",), with message
\* "body is not a json" in the JSON case, the response is 400 and the handler
\* is not invoked.
C11_FetchFailureIsOneBodyError ==
    BodyFetchFailed
    => /\ handler_calls = 0
       /\ pc \in {"check", "done"}
       /\ "body" \in DOMAIN validation_errors
       /\ ~validation_errors["body"].none
       /\ Len(validation_errors["body"].list) = 1
       /\ validation_errors["body"].list[1].loc = <<"body">>
       /\ raw["body"].ctype = "application/json"
             => validation_errors["body"].list[1].msg = "body is not a json"
       /\ pc = "done"
             => /\ Returned400
                /\ ~envelope.errors.none
                /\ envelope.errors.map["body"] = validation_errors["body"]

C11_Witness ==
    /\ pc = "done"
    /\ "body" \in DOMAIN raw
    /\ raw["body"] = [ctype |-> "application/json", text |-> "a=1"]
    /\ Returned400
    /\ envelope.errors.map["body"].list[1].msg = "body is not a json"

ErrorsSet == ~envelope.errors.none /\ DOMAIN envelope.errors.map # {}
ResultSet == envelope.result # PyNone

\* C12: in every reachable state the envelope never has both a result and a
\* non-empty errors map; errors are set only on the path that returns 400
\* without calling the handler, and the result only after the handler returned.
C12_ErrorsAndResultExclusive ==
    /\ ~(ErrorsSet /\ ResultSet)
    /\ ~envelope.errors.none
          => /\ handler_calls = 0
             /\ pc = "done"
             /\ Returned400
             /\ envelope.errors.map = validation_errors
    /\ ResultSet
          => /\ InStages("handler")
             /\ handler_calls = 1
             /\ envelope.result = Payload

C12_Witness ==
    /\ pc = "done"
    /\ ErrorsSet
    /\ ~ResultSet
    /\ Cardinality(DOMAIN envelope.errors.map) = 2
    /\ Returned400

C12_WitnessResult ==
    /\ pc = "done"
    /\ ResultSet
    /\ envelope.errors.none
    /\ ReturnedResponse

\* the handler's signature has a response parameter annotated with a class
\* that is not Response
WrongResponseDeclared ==
    \E i \in 1..Len(signature) :
        signature[i].name = "response" /\ signature[i].ann \notin {"Response", "empty"}

\* every parameter has an annotation and one of the five reserved names
SignatureWellFormed ==
    \A i \in 1..Len(signature) :
        signature[i].ann # "empty" /\ signature[i].name \in SurfaceNames \cup {"response"}

NothingFetched ==
    /\ raw = EmptyMap
    /\ validated = EmptyMap
    /\ attempted = <<>>
    /\ handler_calls = 0
    /\ heap = <<>>

StageOrder ==
    <<"resolve_method", "extract_annotations", "extract_data", "dispatch",
      "handler", "handle_response">>

\* the stages completed so far are the first ones of StageOrder, in that order
StagesInOrder ==
    /\ Len(stages) <= Len(StageOrder)
    /\ \A i \in 1..Len(stages) : stages[i] = StageOrder[i]

\* the surfaces the handler declares, in the order _extract_data takes them
DeclaredInOrder == SelectSeq(Surfaces, LAMBDA s : s \in DeclaredSurfaces)

\* the handler was called only after every declared surface was fetched and
\* validated, none with an error
HandlerAfterAllSurfaces ==
    handler_calls > 0
    => /\ InStages("extract_data")
       /\ InStages("dispatch")
       /\ attempted = DeclaredInOrder
       /\ \A s \in DeclaredSurfaces : s \in DOMAIN raw /\ s \in DOMAIN validated
       /\ DOMAIN validation_errors = {}

ConfigurationErrors == {"ExtractionTypeError", "WrongAnnotatedWebResponseError"}

\* a stage that failed is the last stage that ran
FailedStageIsLast ==
    /\ outcome.kind # "none" => pc = "done"
    /\ (outcome.kind = "error" /\ outcome.error = "HTTPMethodNotAllowed")
          => stages = SubSeq(StageOrder, 1, 1) /\ NothingFetched
    /\ (outcome.kind = "error" /\ outcome.error \in ConfigurationErrors)
          => stages = SubSeq(StageOrder, 1, 2) /\ NothingFetched
    /\ (InStages("dispatch") /\ HasValidationErrors(validation_errors))
          => /\ stages = SubSeq(StageOrder, 1, 4)
             /\ pc = "done"
             /\ Returned400
             /\ handler_calls = 0
             /\ method_response = NoReturn

\* C14: within one request the stages run strictly in the order resolve method,
\* extract annotations, fetch and validate the declared surfaces, short-circuit
\* on error, call the handler, normalise the response; each step completes at
\* most the next stage, surfaces are fetched only between the annotations and
\* the short-circuit, the handler is called only after every declared surface
\* was fetched and validated, and after a failing stage (405, configuration
\* error, 400) nothing runs any more.
C14_StagesInOrder ==
    /\ [](StagesInOrder /\ HandlerAfterAllSurfaces /\ FailedStageIsLast)
    /\ [][/\ pc # "done"
          /\ outcome.kind = "none"
          /\ stages' # stages => stages' = SubSeq(StageOrder, 1, Len(stages) + 1)
          /\ (attempted' # attempted \/ raw' # raw)
                => /\ stages = SubSeq(StageOrder, 1, 2)
                   /\ handler_calls = 0]_vars

C14_Witness ==
    /\ pc = "done"
    /\ stages = StageOrder
    /\ Cardinality(DeclaredSurfaces) >= 2
    /\ handler_calls = 1
    /\ ReturnedResponse

\* a returned response is complete: an object that exists, and, when the
\* pipeline wrote it, one with the envelope's JSON and its content type
CompleteResponse ==
    outcome.kind = "response"
    => /\ outcome.id \in 1..Len(heap)
       /\ (~InStages("handler") \/ Payload.t = "BaseModel")
             => /\ heap[outcome.id].content_type = "application/json"
                /\ heap[outcome.id].text = SchemaJson(envelope)

\* C15: every run for one request, given that the body read and the handler
\* terminate, ends, and ends in exactly one terminal outcome: one complete
\* response returned or one error raised; the outcome is set by the last step
\* and by no step before it, and nothing happens after it.
C15_OneTerminalOutcome ==
    /\ <>(pc = "done")
    /\ [](/\ outcome.kind \in {"none", "response", "error"}
          /\ pc = "done" <=> outcome.kind # "none"
          /\ CompleteResponse)
    /\ [][/\ outcome.kind = "none"
          /\ outcome' # outcome => pc' = "done"]_vars

C15_Witness ==
    /\ pc = "done"
    /\ outcome = Raised("CannotSerializeResponseError")
    /\ handler_calls = 1
    /\ method_response = Bare(PyModel("unserializable"))

-----------------------------------------------------------------------------
(* concurrent requests: one view instance per request, each a coroutine that *)
(* is suspended at the body read and at the handler call                     *)

NumRequests == 2

\* the view class all requests go to: handlers get and put
ConcView == [NoAttrs EXCEPT !["get"] = "callable", !["put"] = "callable"]

\* inspect.signature of the two handlers
HandlerSignature(name) ==
    CASE name = "get" -> <<Param("body", "int")>>
      [] name = "put" -> <<Param("headers", "Schema"), Param("body", "Schema"),
                           Param("response", "Response")>>
ParamNames(name) == {HandlerSignature(name)[i].name : i \in 1..Len(HandlerSignature(name))}

\* what the two handlers do: get returns (model of its body, 201); put sets the
\* status and a header on its response and returns its body model
HandlerResult(name, args) ==
    CASE name = "get" ->
            [ret |-> Tuple(<<PyModel(args["body"].v), PyInt("201")>>),
             status |-> 200, headers |-> {}]
      [] name = "put" ->
            [ret |-> Bare(args["body"]), status |-> 403, headers |-> {"X-Handler"}]

\* the requests tried
ConcBodies == { [ctype |-> "application/json", text |-> "7"],
                [ctype |-> "application/json", text |-> "{\"a\": 1}"] }
ConcRequests ==
    [method : {"GET", "PUT", "DELETE"}, headers : RawMappings,
     match_info : {PyDict("{}")}, query_params : {PyDict("{}")}, body : ConcBodies]

\* AioFastView(request): the instance and the locals of its coroutine
NewInstance(req) ==
    [pc |-> "start", request |-> req, _method |-> "None", called |-> "None",
     annotations |-> NoAnnotations, envelope |-> NewEnvelope, response |-> <<>>,
     method_params |-> EmptyMap, validation_errors |-> EmptyMap,
     returned |-> <<>>, error |-> "", allowed |-> {}]

\* the coroutine raises e / returns the response object resp
Fail(st, e) == [st EXCEPT !.pc = "done", !.error = e]
Return(st, resp) == [st EXCEPT !.pc = "done", !.returned = <<resp>>]

InjectedResponse == [t |-> "Response", v |-> "injected"]

\* lines 116-123, with self._method evaluating to bound_method
DispatchInstance(st, bound_method) ==
    LET params == IF st.response # <<>>
                  THEN Put(st.method_params, "response", InjectedResponse)
                  ELSE st.method_params
        given == [st EXCEPT !.method_params = params]
    IN IF HasValidationErrors(st.validation_errors)
       THEN LET env == SetClientError(st.envelope, st.validation_errors) IN
            Return([given EXCEPT !.envelope = env], JsonResponse(NewResponse, env, HTTP_400))
       ELSE IF DOMAIN params # ParamNames(bound_method) THEN Fail(given, "TypeError")
       ELSE [given EXCEPT !.called = bound_method, !.pc = "handler"]

\* one of the three mapping blocks of _extract_data
BindMapping(st, s) ==
    IF st.pc = "done" \/ st.annotations[s] = "None" THEN st
    ELSE LET r == ValidateMapping(st.request[s]) IN
         IF r.raised # "" THEN Fail(st, r.raised)
         ELSE IF Truthy(r.result)
         THEN [st EXCEPT !.method_params = Put(@, s, r.result)]
         ELSE [st EXCEPT !.validation_errors = Put(@, s, r.errors)]

\* lines 96-115 and 206-228: from the start to the body read; without a
\* declared body the coroutine runs on to the handler call
BeginRequest(st) ==
    LET m == st.request.method IN
    IF m \notin METH_ALL \/ HandlerMissing(ConcView, m)
    THEN [Fail(st, "HTTPMethodNotAllowed") EXCEPT !.allowed = AllowedMethods(ConcView)]
    ELSE LET bound == [st EXCEPT !._method = Lower(m)]
             ann == ExtractedAnnotations(HandlerSignature(Lower(m)))
         IN IF ann.raised # "" THEN Fail(bound, ann.raised)
            ELSE IF ann.response # "None" /\ ~IsResponseType(ann.response)
            THEN Fail(bound, "WrongAnnotatedWebResponseError")
            ELSE LET s0 == [bound EXCEPT
                               !.annotations = ann,
                               !.response = IF ann.response # "None"
                                            THEN <<NewResponse>> ELSE <<>>]
                     s3 == BindMapping(BindMapping(BindMapping(s0, "headers"),
                                                   "match_info"), "query_params")
                 IN IF s3.pc = "done" THEN s3
                    ELSE IF ann.body # "None" THEN [s3 EXCEPT !.pc = "body_read"]
                    ELSE DispatchInstance(s3, s3._method)

\* lines 230-235 and 116-123: from the body read to the handler call
AfterBodyRead(st, bound_method) ==
    LET r == ValidateBodyData(st.annotations.body, st.request.body) IN
    IF r.raised # "" THEN Fail(st, r.raised)
    ELSE IF Truthy(r.result)
    THEN DispatchInstance([st EXCEPT !.method_params = Put(@, "body", r.result)], bound_method)
    ELSE DispatchInstance([st EXCEPT !.validation_errors = Put(@, "body", r.errors)],
                          bound_method)

\* lines 153-175 for one instance: the payload x with status code
NormalizeInstance(st, x, code) ==
    LET type == HandlerResponseType(x) IN
    IF type = "pydantic_model"
    THEN LET env == SetResult(st.envelope, x)
             written == JsonResponse(IF st.response = <<>> THEN NewResponse
                                     ELSE st.response[1], env, code)
         IN IF ~Serializable(env)
            THEN Fail([st EXCEPT !.envelope = env], "CannotSerializeResponseError")
            ELSE Return([st EXCEPT !.envelope = env,
                                   !.response = IF @ = <<>> THEN @ ELSE <<written>>],
                        written)
    ELSE IF type = "web_response"
    THEN IF st.response # <<>> /\ x # InjectedResponse
         THEN Fail(st, "NotOriginalResponseError")
         ELSE Return(st, IF x = InjectedResponse THEN st.response[1] ELSE HandlerResponse)
    ELSE Fail(st, "UnhandledResponseTypeError")

\* lines 123-129 and _handle_response: the handler that was called returns
AfterHandler(st) ==
    LET h == HandlerResult(st.called, st.method_params)
        resp == IF st.response = <<>> THEN <<>>
                ELSE <<[st.response[1] EXCEPT !.status = h.status, !.headers = h.headers]>>
        s0 == [st EXCEPT !.response = resp]
    IN IF h.ret.tuple
       THEN IF Len(h.ret.items) # 2 THEN Fail(s0, "HandlerResultTypeError")
            ELSE LET c == GetHandlerResponseHttpCode(resp, h.ret.items[2]) IN
                 IF c.raised # "" THEN Fail(s0, c.raised)
                 ELSE NormalizeInstance(s0, h.ret.items[1], c.code)
       ELSE NormalizeInstance(s0, h.ret.items[1], _default_response_success_http_code)

\* a variant that keeps _method on the view class, shared by the instances
BoundMethod_OnClass(r) == latest_method

\* self._method, an attribute of the instance (line 99)
BoundMethod(r) == instances[r]._method

RequestIds == 1..NumRequests

ConcBegin(r) ==
    /\ instances[r].pc = "start"
    /\ instances' = [instances EXCEPT ![r] = BeginRequest(@)]
    /\ latest_method' = IF instances'[r]._method # "None" THEN instances'[r]._method
                        ELSE latest_method
    /\ UNCHANGED <<pipeline_vars, qs_vars>>

ConcBodyRead(r) ==
    /\ instances[r].pc = "body_read"
    /\ instances' = [instances EXCEPT ![r] = AfterBodyRead(@, BoundMethod(r))]
    /\ UNCHANGED <<latest_method, pipeline_vars, qs_vars>>

ConcHandlerReturns(r) ==
    /\ instances[r].pc = "handler"
    /\ instances' = [instances EXCEPT ![r] = AfterHandler(@)]
    /\ UNCHANGED <<latest_method, pipeline_vars, qs_vars>>

InitConc ==
    /\ PipelineInit
    /\ method = "GET"
    /\ view = ConcView
    /\ signature = <<>>
    /\ qs_pairs = <<>>
    /\ qs_result = [n \in {} |-> PyNone]
    /\ instances \in [RequestIds -> {NewInstance(q) : q \in ConcRequests}]
    /\ latest_method = "None"

NextConc ==
    \E r \in RequestIds :
        \/ ConcBegin(r)
        \/ ConcBodyRead(r)
        \/ ConcHandlerReturns(r)

SpecConc == InitConc /\ [][NextConc]_vars

\* the request processed alone: the states its instance goes through
AloneAtBody(req) == BeginRequest(NewInstance(req))
AloneAtHandler(req) ==
    LET s == AloneAtBody(req) IN
    IF s.pc = "body_read" THEN AfterBodyRead(s, s._method) ELSE s
Alone(req) ==
    LET s == AloneAtHandler(req) IN
    IF s.pc = "handler" THEN AfterHandler(s) ELSE s

\* C16: when requests are processed concurrently, each by its own instance, and
\* interleaved in any way at the body read and the handler call, every instance
\* is at each moment in a state it goes through when its request is processed
\* alone, and ends with the outcome (response, envelope, error) of that run.
C16_SameOutcomeAsAlone ==
    \A r \in DOMAIN instances :
        LET req == instances[r].request IN
        /\ instances[r] \in {NewInstance(req), AloneAtBody(req), AloneAtHandler(req), Alone(req)}
        /\ instances[r].pc = "done" => instances[r] = Alone(req)

C16_Witness ==
    /\ instances # <<>>
    /\ instances[1].pc = "done"
    /\ instances[1]._method = "get"
    /\ instances[1].returned # <<>>
    /\ instances[1].returned[1].status = 201
    /\ instances[2].pc = "handler"
    /\ instances[2]._method = "put"
    /\ latest_method = "get"

-----------------------------------------------------------------------------
(* properties of the response normaliser *)

\* the handler returned a bare value or a tuple of two
BareOrTupleOfTwo == ~method_response.tuple \/ TupleOfTwo

\* _get_handler_response_http_code returns a status for the tuple
StatusResolves ==
    /\ TupleOfTwo
    /\ \/ AnnotatedStatusChanged
       \/ Indicator.t = "int"
       \/ Indicator = PyType("HTTPNotFound")

\* the payload is a transport response the pipeline accepts
OwnOrInjectedResponse ==
    /\ BareOrTupleOfTwo
    /\ Payload.t = "Response"
    /\ response = 0 \/ Payload = Ref(response)

\* C17 as stated: when the handler's payload is a transport response and
\* either no response was injected or the payload is the injected one, bare or
\* in any tuple of two, the step that normalises it returns that very object
\* and changes no response object and not the envelope.
C17_TransportResponseReturned ==
    [][(pc = "normalize" /\ OwnOrInjectedResponse)
          => /\ outcome' = Returned(RefId(Payload))
             /\ heap' = heap
             /\ envelope' = envelope]_vars

\* C17, amended: the same for a bare payload and for a tuple of two whose
\* status resolves: the step returns that very object and changes no response
\* object (the resolved status is not applied) and not the envelope (nothing
\* is written into it); in a tuple of two whose status does not resolve the
\* step raises UnexpectedHttpCodeError and changes nothing either.
C17_TransportResponseUntouched ==
    [][/\ (pc = "normalize" /\ OwnOrInjectedResponse
              /\ (method_response.tuple => StatusResolves))
          => /\ outcome' = Returned(RefId(Payload))
             /\ heap' = heap
             /\ envelope' = envelope
             /\ envelope' = NewEnvelope
       /\ (pc = "normalize" /\ OwnOrInjectedResponse
              /\ method_response.tuple /\ ~StatusResolves)
          => /\ outcome' = Raised("UnexpectedHttpCodeError")
             /\ heap' = heap
             /\ envelope' = envelope]_vars

C17_Witness ==
    /\ pc = "done"
    /\ response = 1
    /\ method_response = Tuple(<<Ref(1), PyInt("201")>>)
    /\ outcome = Returned(1)
    /\ heap[1].status = 200
    /\ heap[1].headers = {"X-Handler"}
    /\ heap[1].text = <<>>

\* C18: when the handler returns a tuple of two whose indicator is neither an
\* integer nor an HTTPException class, and the annotated response is absent or
\* still has status 200, the pipeline raises UnexpectedHttpCodeError and
\* returns nothing, whatever the payload; an HTTPException class as indicator
\* gives that class's status code.
C18_UnexpectedHttpCode ==
    (pc = "done" /\ InStages("handle_response") /\ TupleOfTwo /\ ~AnnotatedStatusChanged)
    => /\ (Indicator.t # "int" /\ Indicator # PyType("HTTPNotFound"))
             => outcome = Raised("UnexpectedHttpCodeError")
       /\ (Indicator = PyType("HTTPNotFound") /\ Payload = PyModel("{'id': 1}"))
             => /\ ReturnedResponse
                /\ heap[outcome.id].status = StatusCodeOf(Indicator)

C18_Witness ==
    /\ pc = "done"
    /\ response = 1
    /\ status_at_return = 200
    /\ method_response = Tuple(<<Ref(1), PyStr("201")>>)
    /\ outcome = Raised("UnexpectedHttpCodeError")

\* C19: a returned tuple of any length other than two raises
\* HandlerResultTypeError, and a payload (bare, or first of a tuple of two whose
\* status resolves) that is neither a model nor a transport response raises
\* UnhandledResponseTypeError; nothing is returned in both cases.
C19_WrongResultTypes ==
    (pc = "done" /\ InStages("handle_response"))
    => /\ (method_response.tuple /\ ~TupleOfTwo)
             => outcome = Raised("HandlerResultTypeError")
       /\ ((method_response.tuple => StatusResolves)
              /\ BareOrTupleOfTwo /\ Payload.t \notin {"BaseModel", "Response"})
             => outcome = Raised("UnhandledResponseTypeError")

C19_Witness ==
    /\ pc = "done"
    /\ method_response = Tuple(<<PyDict("{'id': 1}"), PyInt("201")>>)
    /\ outcome = Raised("UnhandledResponseTypeError")

C19_WitnessLength ==
    /\ pc = "done"
    /\ method_response = Tuple(<<PyModel("{'id': 1}")>>)
    /\ outcome = Raised("HandlerResultTypeError")

\* the handler declared a response and returned a model the envelope can hold
ModelIntoInjected ==
    /\ pc = "normalize"
    /\ response # 0
    /\ method_response.tuple => StatusResolves
    /\ BareOrTupleOfTwo
    /\ Payload = PyModel("{'id': 1}")

\* C20: when the handler declared a response and returns a model (bare or in a
\* tuple of two), the pipeline returns the injected object itself, with the
\* envelope's JSON and application/json written into it and with the headers
\* and the status the handler set on it; a response object is constructed for a
\* model only when no response was declared.
C20_ModelWrittenIntoInjected ==
    [][/\ ModelIntoInjected
          => /\ outcome' = Returned(response)
             /\ Len(heap') = Len(heap)
             /\ heap'[response].content_type = "application/json"
             /\ heap'[response].text = SchemaJson(envelope')
             /\ heap'[response].headers = heap[response].headers
             /\ AnnotatedStatusChanged => heap'[response].status = heap[response].status
       /\ (pc = "normalize" /\ response = 0 /\ BareOrTupleOfTwo
             /\ (method_response.tuple => StatusResolves) /\ Payload = PyModel("{'id': 1}"))
          => /\ Len(heap') = Len(heap) + 1
             /\ outcome' = Returned(Len(heap) + 1)]_vars

====
